---- MODULE Spec2Model ----
(***************************************************************************)
(* idl2js: Anchor IDL -> pure JavaScript SDK.                              *)
(*                                                                         *)
(* The repository holds two variants of the orchestrator generateJsSdk:    *)
(*   "spawn"  src/src/generator.js   (locates a local stub, spawns it)     *)
(*   "exec"   src/unnamed/part_001   (execSync of `npx -y ...`)            *)
(* Both are modelled; the variable `variant` says which one a run uses.    *)
(***************************************************************************)
EXTENDS Integers, Sequences, FiniteSets, TLC

(***************************************************************************)
(* Bounds of the model.                                                    *)
(***************************************************************************)
\* Longest address string of a descriptor (in characters).
MaxLen == 2
\* Calls of generateJsSdk made one after the other on the same filesystem.
MaxRuns == 2

(***************************************************************************)
(* JavaScript strings and values.                                          *)
(* A string is a sequence of characters; " " is the whitespace character.  *)
(***************************************************************************)
Chars == {" ", "a"}

RECURSIVE StringsUpTo(_)
StringsUpTo(n) ==
  IF n = 0 THEN {<<>>}
  ELSE LET shorter == StringsUpTo(n - 1)
       IN  shorter \cup {Append(s, c) : s \in {t \in shorter : Len(t) = n - 1}, c \in Chars}

Strings == StringsUpTo(MaxLen)

\* String.prototype.trimStart / trimEnd / trim
RECURSIVE TrimStart(_)
TrimStart(s) ==
  IF s # <<>> /\ Head(s) = " " THEN TrimStart(Tail(s)) ELSE s

RECURSIVE TrimEnd(_)
TrimEnd(s) ==
  IF s # <<>> /\ s[Len(s)] = " " THEN TrimEnd(SubSeq(s, 1, Len(s) - 1)) ELSE s

Trim(s) == TrimEnd(TrimStart(s))

\* A JavaScript value as far as the extractor can tell values apart:
\* undefined, null, a string, or some other value (number, object, ...).
Undefined == [t |-> "undefined", v |-> <<>>]
Null      == [t |-> "null", v |-> <<>>]
Other     == [t |-> "other", v |-> <<>>]
Str(s)    == [t |-> "string", v |-> s]

JsValues == {Undefined, Null, Other} \cup {Str(s) : s \in Strings}

IsNullish(x) == x.t \in {"undefined", "null"}

\* a ?? b
Coalesce(a, b) == IF IsNullish(a) THEN b ELSE a

\* !x for the values above ("other" stands for a truthy non-string)
Falsy(x) == IsNullish(x) \/ (x.t = "string" /\ x.v = <<>>)

(***************************************************************************)
(* The descriptor file: what readFile + JSON.parse give.                   *)
(*   file: "unreadable" (readFile rejects), "badjson" (JSON.parse throws), *)
(*         "json" (parses)                                                 *)
(*   root: "object", or "other" (null / a primitive: has no own fields)    *)
(*   meta: the value of .metadata: absent, null, an object, or another     *)
(*         value (has no .address)                                         *)
(***************************************************************************)
Descriptors ==
  [file : {"unreadable", "badjson"}, root : {"other"}, meta : {"undefined"},
   metaAddress : {Undefined}, address : {Undefined}]
  \cup
  [file : {"json"}, root : {"other"}, meta : {"undefined"},
   metaAddress : {Undefined}, address : {Undefined}]
  \cup
  [file : {"json"}, root : {"object"}, meta : {"undefined", "null", "other"},
   metaAddress : {Undefined}, address : JsValues]
  \cup
  [file : {"json"}, root : {"object"}, meta : {"object"},
   metaAddress : JsValues, address : JsValues]

\* idl?.metadata?.address
MetadataAddress(idl) ==
  IF idl.root = "object" /\ idl.meta = "object" THEN idl.metaAddress ELSE Undefined

\* idl?.address
TopAddress(idl) ==
  IF idl.root = "object" THEN idl.address ELSE Undefined

\* The outcome of one call of the extractor: what it returned, whether the
\* call threw, and whether it logged the diagnostic of its catch block.
Returned(x, logged) == [outcome |-> "returned", value |-> x, logged |-> logged]
Threw == [outcome |-> "threw", value |-> Undefined, logged |-> FALSE]

\* ExtractSpawn with the .trim() left out.
ExtractSpawnNoTrim(idl) ==
  IF idl.file # "json" THEN Returned(Null, TRUE)
  ELSE LET a == Coalesce(Coalesce(MetadataAddress(idl), TopAddress(idl)), Null)
       IN  IF IsNullish(a) THEN Returned(Null, FALSE)
           ELSE IF a.t = "string" THEN Returned(Str(a.v), FALSE)
           ELSE Returned(Null, TRUE)

\* src/src/generator.js:
\*   (idl?.metadata?.address ?? idl?.address ?? null)?.trim() ?? null
\* .trim on a non-string is a TypeError, which the catch turns into null.
ExtractSpawn(idl) ==
  IF idl.file # "json" THEN Returned(Null, TRUE)
  ELSE LET a == Coalesce(Coalesce(MetadataAddress(idl), TopAddress(idl)), Null)
       IN  IF IsNullish(a) THEN Returned(Null, FALSE)
           ELSE IF a.t = "string" THEN Returned(Coalesce(Str(Trim(a.v)), Null), FALSE)
           ELSE Returned(Null, TRUE)

\* ExtractExec looking at the top-level address before metadata.address.
ExtractExecTopFirst(idl) ==
  IF idl.file # "json" THEN Returned(Null, TRUE)
  ELSE LET a == Coalesce(Coalesce(TopAddress(idl), MetadataAddress(idl)), Str(<<>>))
       IN  IF a.t = "string"
           THEN LET r == Str(Trim(a.v))
                IN  Returned(IF Falsy(r) THEN Null ELSE r, FALSE)
           ELSE Returned(Null, TRUE)

\* src/unnamed/part_001:
\*   (idl?.metadata?.address ?? idl?.address ?? "").trim() || null
ExtractExec(idl) ==
  IF idl.file # "json" THEN Returned(Null, TRUE)
  ELSE LET a == Coalesce(Coalesce(MetadataAddress(idl), TopAddress(idl)), Str(<<>>))
       IN  IF a.t = "string"
           THEN LET r == Str(Trim(a.v))
                IN  Returned(IF Falsy(r) THEN Null ELSE r, FALSE)
           ELSE Returned(Null, TRUE)

Variants == {"spawn", "exec"}

extractProgramIdFromIdl(v, idl) ==
  IF v = "spawn" THEN ExtractSpawn(idl) ELSE ExtractExec(idl)

(***************************************************************************)
(* The filesystem.  A path is a sequence of names; a name has a stem and   *)
(* an extension ("" for a directory).  The root <<>> always exists.        *)
(***************************************************************************)
D(stem) == [stem |-> stem, ext |-> ""]
F(stem, ext) == [stem |-> stem, ext |-> ext]

IsPrefix(p, q) == Len(p) <= Len(q) /\ SubSeq(q, 1, Len(p)) = p
Parent(p) == SubSeq(p, 1, Len(p) - 1)
Ancestors(p) == {SubSeq(p, 1, n) : n \in 1..Len(p)}

EmptyFs == [dirs |-> {}, files |-> {}]
Entries(fs) == fs.dirs \cup fs.files
Under(fs, p) == {q \in Entries(fs) : IsPrefix(p, q) /\ q # p}
FilesUnder(fs, p) == {q \in fs.files : IsPrefix(p, q)}
IsEmptyDir(fs, p) == p \in fs.dirs /\ Under(fs, p) = {}

\* fs.access(p) resolves
Access(fs, p) == p \in Entries(fs)

\* fs.rm(p, {recursive: true, force: true}) that succeeds: p and everything
\* below it is gone; an absent p is not an error (force).
Rm(fs, p) ==
  [dirs  |-> {q \in fs.dirs : ~IsPrefix(p, q)},
   files |-> {q \in fs.files : ~IsPrefix(p, q)}]

\* fs.rm that rejects (EPERM, EACCES, EBUSY, ...): p itself is still there,
\* and any part of the files below it may already have been unlinked.
\* With force, a missing p never rejects.
RmFailures(fs, p) ==
  IF ~Access(fs, p) THEN {}
  ELSE {[dirs |-> fs.dirs, files |-> fs.files \ gone] :
          gone \in SUBSET (FilesUnder(fs, p) \ {p})}

\* fs.mkdir(p, {recursive: true}): p and its missing ancestors are created;
\* an existing directory is not an error.  It rejects when a file is in
\* the way, and may reject for lack of permission (nothing is created).
MkdirBlocked(fs, p) == Ancestors(p) \cap fs.files # {}

Mkdir(fs, p) ==
  [dirs |-> fs.dirs \cup Ancestors(p), files |-> fs.files]

\* Writing a file creates the directories above it.
WriteFile(fs, p) ==
  [dirs |-> fs.dirs \cup Ancestors(Parent(p)), files |-> fs.files \cup {p}]

(***************************************************************************)
(* State.                                                                  *)
(***************************************************************************)
VARIABLES
  variant,      \* which orchestrator runs: "spawn" or "exec"
  env,          \* process.platform and what is installed under node_modules
  req,          \* the options generateJsSdk is called with (paths resolved)
  idlDoc,       \* the content of the descriptor file
  fs,           \* the filesystem: directories and files that exist
  runs,         \* calls of generateJsSdk the caller has still to make
  pc,           \* where the current call is
  programId,    \* the local variable programId
  extracted,    \* what extractProgramIdFromIdl gave this call, if called
  ops,          \* the fs.rm / fs.mkdir promises of the preparation phase
  inv,          \* the generator invocation: runner, args, spawn options
  child,        \* the generator process
  entryPoints,  \* the .ts files globby found
  result,       \* the promise generateJsSdk returned
  calls,        \* calls this run made: extractor, generator, compiler
  hist          \* the filesystem at the call and when preparation completed

vars == <<variant, env, req, idlDoc, fs, runs, pc, programId, extracted, ops,
          inv, child, entryPoints, result, calls, hist>>

(***************************************************************************)
(* Values of the state.                                                    *)
(***************************************************************************)
\* "So11111111111111111111111111111111111111112"
DefaultProgramId == <<"S", "o">> \o [i \in 1..40 |-> "1"] \o <<"2">>

IdlPath == <<F("idl", "json")>>
TmpDir  == <<D(".tmp-ts")>>
OutDir  == <<D("sdk-js")>>

\* node_modules/.bin/anchor-client-gen(.cmd), node_modules/anchor-client-gen
BinDir  == <<D("node_modules"), D(".bin")>>
CmdStub == Append(BinDir, F("anchor-client-gen", "cmd"))
ShStub  == Append(BinDir, F("anchor-client-gen", ""))
PkgDir  == <<D("node_modules"), D("anchor-client-gen")>>
PkgBin  == Append(Append(PkgDir, D("dist")), F("main", "js"))
ExecPath == <<F("node", "")>>
Npx(platform) == <<F("npx", IF platform = "win32" THEN "cmd" ELSE "")>>

NoExtract == [outcome |-> "notcalled", value |-> Undefined, logged |-> FALSE]
NoInv == [runner |-> <<>>, args |-> <<>>, shell |-> FALSE, stdio |-> "none"]
\* child.promise is the promise of run() ("none": no run() call, as under
\* execSync); child.settleCalls counts the calls of resolveRun and rejectRun.
NoChild == [state |-> "none", wrote |-> FALSE, code |-> Null, stderr |-> "",
            promise |-> "none", settleCalls |-> 0]
NoOps == [rmTs |-> "idle", rmJs |-> "idle", mkTs |-> "idle", mkJs |-> "idle",
          cleanup |-> "idle"]
NoCalls == [extractor |-> 0, generator |-> 0, compiler |-> 0]
NoError == [kind |-> "none", code |-> Null, stderr |-> ""]
NoResult == [status |-> "none", value |-> <<>>, error |-> NoError]
Pending == [status |-> "pending", value |-> <<>>, error |-> NoError]
Resolved(path) == [status |-> "returned", value |-> path, error |-> NoError]
Rejected(kind, code, text) ==
  [status |-> "rejected", value |-> <<>>,
   error |-> [kind |-> kind, code |-> code, stderr |-> text]]

Num(n) == [t |-> "number", v |-> n]

\* An element of an argument array.
PathArg(p) == [kind |-> "path", val |-> p]
TextArg(s) == [kind |-> "text", val |-> s]
FlagArg(s) == [kind |-> "flag", val |-> <<s>>]

RmOp(d) == IF d = "ts" THEN "rmTs" ELSE "rmJs"
MkOp(d) == IF d = "ts" THEN "mkTs" ELSE "mkJs"
DirOf(r, d) == IF d = "ts" THEN r.tsOutDir ELSE r.jsOutDir
Settled(o) == o \in {"idle", "ok", "failed"}
NoOpPending == \A k \in DOMAIN ops : Settled(ops[k])

(***************************************************************************)
(* generateJsSdk, phase by phase.                                          *)
(***************************************************************************)
\* The caller calls generateJsSdk(req).  Calls on the same directories are
\* made one after the other: the next one starts when the previous promise
\* has settled and none of its filesystem operations is still in flight.
Call ==
  /\ pc \in {"idle", "done"}
  /\ runs > 0
  /\ NoOpPending
  /\ runs' = runs - 1
  /\ pc' = "validate"
  /\ programId' = req.programId
  /\ extracted' = NoExtract
  /\ ops' = NoOps
  /\ inv' = NoInv
  /\ child' = NoChild
  /\ entryPoints' = {}
  /\ result' = Pending
  /\ calls' = NoCalls
  /\ hist' = [atCall |-> fs,
              prepDone |-> FALSE,
              afterPrep |-> EmptyFs,
              prevValid |-> hist.prepDone /\ fs = hist.afterPrep,
              prevPrep |-> hist.afterPrep]
  /\ UNCHANGED <<variant, env, req, idlDoc, fs>>

\* SourceExists with the check left out.
ValidateSkipsCheck(f, path) == TRUE

\* await fs.access(idlPath).catch(() => { throw new Error("IDL 文件不存在") })

SourceExists(f, path) == Access(f, path)

Validate ==
  /\ pc = "validate"
  /\ IF SourceExists(fs, req.idlPath)
     THEN /\ pc' = "resolveId"
          /\ UNCHANGED result
     ELSE /\ pc' = "done"
          /\ result' = Rejected("SourceNotFound", Null, "")
  /\ UNCHANGED <<variant, env, req, idlDoc, fs, runs, programId, extracted, ops,
                 inv, child, entryPoints, calls, hist>>

\* What readFile + JSON.parse see at the descriptor's path.
ReadDescriptor(f, path, doc) ==
  IF Access(f, path) THEN doc
  ELSE [file |-> "unreadable", root |-> "other", meta |-> "undefined",
        metaAddress |-> Undefined, address |-> Undefined]

\* ResolveProgramId without the default placeholder.
ResolveNoDefault(v, supplied, doc) ==
  IF ~Falsy(supplied) THEN <<NoExtract, supplied>>
  ELSE LET x == extractProgramIdFromIdl(v, doc)
       IN  <<x, x.value>>

\* if (!programId) { programId = await extract(...); if (!programId) default }
\* The pair is <<the extractor's outcome, the identifier the run goes on with>>.
ResolveProgramId(v, supplied, doc) ==
  IF ~Falsy(supplied) THEN <<NoExtract, supplied>>
  ELSE LET x == extractProgramIdFromIdl(v, doc)
       IN  <<x, IF x.outcome = "returned" /\ ~Falsy(x.value) THEN x.value
                ELSE Str(DefaultProgramId)>>

ResolveId ==
  /\ pc = "resolveId"
  /\ LET r == ResolveProgramId(variant, programId,
                               ReadDescriptor(fs, req.idlPath, idlDoc))
     IN  /\ extracted' = r[1]
         /\ calls' = [calls EXCEPT !.extractor =
                        IF r[1].outcome = "notcalled" THEN @ ELSE @ + 1]
         /\ IF r[1].outcome = "threw"
            THEN /\ pc' = "done"
                 /\ result' = Rejected("ExtractThrew", Null, "")
                 /\ UNCHANGED programId
            ELSE /\ pc' = "prepare"
                 /\ programId' = r[2]
                 /\ UNCHANGED result
  /\ UNCHANGED <<variant, env, req, idlDoc, fs, runs, ops, inv, child,
                 entryPoints, hist>>

\* Promise.all([fs.rm(tsOutDir ...).catch(() => {}), fs.rm(jsOutDir ...).catch(() => {})])
\* Both removals are issued; neither has acted yet.
PrepStart ==
  /\ pc = "prepare"
  /\ pc' = "removing"
  /\ ops' = [ops EXCEPT !.rmTs = "pending", !.rmJs = "pending"]
  /\ UNCHANGED <<variant, env, req, idlDoc, fs, runs, programId, extracted,
                 inv, child, entryPoints, result, calls, hist>>

\* RemovalsSettled as a race: the first removal to settle is enough.
RemovalsSettledAny(o) == o.rmTs \in {"ok", "failed"} \/ o.rmJs \in {"ok", "failed"}

\* The first Promise.all resolves: both removals have settled (a rejection
\* was turned into a resolution by its .catch).
RemovalsSettled(o) == o.rmTs \in {"ok", "failed"} /\ o.rmJs \in {"ok", "failed"}

\* One removal settles.  A rejection is swallowed by its .catch(() => {}).
\* When both have settled, the first Promise.all resolves and the run goes
\* on to issue both fs.mkdir in the same turn.
RemovalOutcomes(f, dir) ==
  {[fs |-> Rm(f, dir), state |-> "ok"]}
  \cup {[fs |-> g, state |-> "failed"] : g \in RmFailures(f, dir)}

RmSettle(d) ==
  /\ ops[RmOp(d)] = "pending"
  /\ \E o \in RemovalOutcomes(fs, DirOf(req, d)) :
       LET ops1 == [ops EXCEPT ![RmOp(d)] = o.state]
           both == RemovalsSettled(ops1)
       IN  /\ fs' = o.fs
           /\ IF both /\ pc = "removing"
              THEN /\ ops' = [ops1 EXCEPT !.mkTs = "pending", !.mkJs = "pending"]
                   /\ pc' = "creating"
              ELSE /\ ops' = ops1
                   /\ UNCHANGED pc
  /\ UNCHANGED <<variant, env, req, idlDoc, runs, programId, extracted, inv,
                 child, entryPoints, result, calls, hist>>

\* CreationsResolved as a race: the first creation to resolve is enough.
CreationsResolvedAny(o) == o.mkTs = "ok" \/ o.mkJs = "ok"

\* The second Promise.all resolves: both creations have resolved.
CreationsResolved(o) == o.mkTs = "ok" /\ o.mkJs = "ok"

\* One fs.mkdir settles.  Promise.all rejects with the first rejection, and
\* resolves when both have resolved.
CreationOutcomes(f, dir) ==
  (IF MkdirBlocked(f, dir) THEN {} ELSE {[fs |-> Mkdir(f, dir), state |-> "ok"]})
  \cup {[fs |-> f, state |-> "failed"]}

MkdirSettle(d) ==
  /\ ops[MkOp(d)] = "pending"
  /\ \E o \in CreationOutcomes(fs, DirOf(req, d)) :
       LET ops1 == [ops EXCEPT ![MkOp(d)] = o.state]
       IN  /\ fs' = o.fs
           /\ ops' = ops1
           /\ IF pc # "creating"
              THEN UNCHANGED <<pc, result, hist>>
              ELSE IF o.state = "failed"
              THEN /\ pc' = "done"
                   /\ result' = Rejected("DirectoryPrepFailed", Null, "")
                   /\ UNCHANGED hist
              ELSE IF CreationsResolved(ops1)
              THEN /\ pc' = "locate"
                   /\ hist' = [hist EXCEPT !.prepDone = TRUE, !.afterPrep = o.fs]
                   /\ UNCHANGED result
              ELSE UNCHANGED <<pc, result, hist>>
  /\ UNCHANGED <<variant, env, req, idlDoc, runs, programId, extracted, inv,
                 child, entryPoints, calls>>

(***************************************************************************)
(* Locating the generator.                                                 *)
(*   env.platform : process.platform ("win32" or "linux")                  *)
(*   env.cmdStub  : node_modules/.bin/anchor-client-gen.cmd exists         *)
(*   env.shStub   : node_modules/.bin/anchor-client-gen exists             *)
(*   env.pkg      : node_modules/anchor-client-gen/package.json is         *)
(*                  "missing", or has "bin" as a string ("binString"), as  *)
(*                  a map with the tool's name ("binMap"), or not at all   *)
(*                  ("noBin")                                              *)
(***************************************************************************)
Platforms == {"win32", "linux"}
PkgStates == {"missing", "binString", "binMap", "noBin"}
Envs == [platform : Platforms, cmdStub : BOOLEAN, shStub : BOOLEAN, pkg : PkgStates]

Located(runner, args, shell, verbose) ==
  [ok |-> TRUE,
   inv |-> [runner |-> runner, args |-> args, shell |-> shell,
            stdio |-> IF verbose THEN "inherit" ELSE "pipe"]]
NotLocated == [ok |-> FALSE, inv |-> NoInv]

GeneratorArgs(r, id) ==
  <<PathArg(r.idlPath), PathArg(r.tsOutDir), FlagArg("--program-id"), TextArg(id.v)>>

\* src/unnamed/part_001: `npx -y anchor-client-gen "<idl>" "<ts>" --program-id <id>`
LocateExec(e, r, id) ==
  Located(Npx(e.platform),
          <<FlagArg("-y"), FlagArg("anchor-client-gen")>> \o GeneratorArgs(r, id),
          TRUE, r.verbose)

\* LocateSpawn going to package.json without looking under node_modules/.bin.
LocateSpawnPackageFirst(e, r, id) ==
  IF e.pkg = "missing" THEN NotLocated
  ELSE Located(ExecPath,
               <<PathArg(IF e.pkg = "noBin" THEN PkgDir ELSE PkgBin)>> \o GeneratorArgs(r, id),
               FALSE, r.verbose)

\* src/src/generator.js: the .cmd stub on Windows, else the stub under
\* node_modules/.bin, else the "bin" entry of the package's package.json
\* (readFile of a missing package.json throws), run with the current node.
LocateSpawn(e, r, id) ==
  IF e.platform = "win32" /\ e.cmdStub
  THEN Located(CmdStub, GeneratorArgs(r, id), TRUE, r.verbose)
  ELSE IF e.shStub
  THEN Located(ExecPath, <<PathArg(ShStub)>> \o GeneratorArgs(r, id), FALSE, r.verbose)
  ELSE IF e.pkg = "missing"
  THEN NotLocated
  ELSE Located(ExecPath,
               <<PathArg(IF e.pkg = "noBin" THEN PkgDir ELSE PkgBin)>> \o GeneratorArgs(r, id),
               FALSE, r.verbose)

Locator(v, e, r, id) ==
  IF v = "spawn" THEN LocateSpawn(e, r, id) ELSE LocateExec(e, r, id)

\* return new Promise((resolveRun, rejectRun) => { ... }) in run(); the
\* execSync of src/unnamed/part_001 has no promise.
NewPromise(v) == IF v = "spawn" THEN "pending" ELSE "none"

\* resolveRun() / rejectRun(e): the first call settles the promise, a later
\* call changes nothing.
SettlePromise(p, outcome) == IF p = "pending" THEN outcome ELSE p

\* The probes, then run(runner, args, opts) / execSync(cmd): the child starts.
\* A throw while locating is caught by the phase's catch and rethrown.
Locate ==
  /\ pc = "locate"
  /\ LET l == Locator(variant, env, req, programId)
     IN  IF l.ok
         THEN /\ inv' = l.inv
              /\ child' = [NoChild EXCEPT !.state = "running",
                                          !.promise = NewPromise(variant)]
              /\ calls' = [calls EXCEPT !.generator = @ + 1]
              /\ pc' = "generating"
              /\ UNCHANGED result
         ELSE /\ pc' = "done"
              /\ result' = Rejected("LocateFailed", Null, "")
              /\ UNCHANGED <<inv, child, calls>>
  /\ UNCHANGED <<variant, env, req, idlDoc, fs, runs, programId, extracted, ops,
                 entryPoints, hist>>

(***************************************************************************)
(* The generator process.                                                  *)
(***************************************************************************)
\* The files the generator may write into the directory it is given.
GeneratedNames == {F("a", "ts"), F("b", "ts"), F("notes", "md")}
\* What it may print on its standard error.
Diagnostics == {"", "bad idl"}
\* Exit codes; Null is termination by a signal.
ExitCodes == {Num(0), Num(1), Null}

\* The directory argument of the invocation: the one before --program-id.
TsArg(i) ==
  LET k == CHOOSE n \in 1..Len(i.args) : i.args[n] = FlagArg("--program-id")
  IN  i.args[k - 1].val

ChildWrite(name) ==
  /\ child.state = "running"
  /\ Append(TsArg(inv), name) \notin fs.files
  /\ fs' = WriteFile(fs, Append(TsArg(inv), name))
  /\ child' = [child EXCEPT !.wrote = TRUE]
  /\ UNCHANGED <<variant, env, req, idlDoc, runs, pc, programId, extracted, ops,
                 inv, entryPoints, result, calls, hist>>

\* Captured as if child.stderr existed whatever stdio is.
CapturedAlways(stdio, text) == text

\* What the rejection carries of the child's standard error: the text is
\* collected from child.stderr, which exists only when stdio is "pipe".

Captured(stdio, text) == IF stdio = "pipe" THEN text ELSE ""

\* CloseResolves taking every exit for a success.
CloseResolvesAlways(code) == TRUE

\* CloseResolves written as !code, which a signal's null passes too.
CloseResolvesFalsy(code) == code \in {Num(0), Null}

\* run(): child.on("close", code => code === 0 ? resolve() : reject(Error(... code, stderr)))
\* execSync: throws an error with .status and .stderr unless the status is 0.
CloseResolves(code) == code = Num(0)

CloseOutcome(code) == IF CloseResolves(code) THEN "resolved" ELSE "rejected"

\* await run(...) goes on when the promise is resolved and throws when it
\* is rejected; execSync returns on status 0 and throws otherwise.
Continues(v, p, code) == IF v = "spawn" THEN p = "resolved" ELSE CloseResolves(code)

ChildClose(code, text) ==
  /\ child.state = "running"
  /\ child' = [child EXCEPT !.state = "exited", !.code = code, !.stderr = text,
                            !.promise = SettlePromise(@, CloseOutcome(code)),
                            !.settleCalls = IF variant = "spawn" THEN @ + 1 ELSE @]
  /\ IF Continues(variant, child'.promise, code)
     THEN /\ pc' = "enumerate"
          /\ UNCHANGED result
     ELSE /\ pc' = "done"
          /\ result' = Rejected("GenerationFailed", code, Captured(inv.stdio, text))
  /\ UNCHANGED <<variant, env, req, idlDoc, fs, runs, programId, extracted, ops,
                 inv, entryPoints, calls, hist>>

\* child.on("error", reject): the process could not be started (it wrote
\* nothing).
ChildError ==
  /\ child.state = "running"
  /\ ~child.wrote
  /\ child' = [child EXCEPT !.state = "failed",
                            !.promise = SettlePromise(@, "rejected"),
                            !.settleCalls = IF variant = "spawn" THEN @ + 1 ELSE @]
  /\ pc' = "done"
  /\ result' = Rejected("SpawnFailed", Null, "")
  /\ UNCHANGED <<variant, env, req, idlDoc, fs, runs, programId, extracted, ops,
                 inv, entryPoints, calls, hist>>

\* The code of the 'close' event that follows the 'error' event of a child
\* that could not be started: the negative errno of the spawn (ENOENT).
SpawnFailureCode == Num(-2)

\* After 'error', the ChildProcess of a failed spawn emits 'close' with that
\* code.  The close handler calls rejectRun on the promise 'error' has
\* already rejected; the run, which has ended, is not affected.
ChildCloseAfterError ==
  /\ variant = "spawn"
  /\ child.state = "failed"
  /\ child' = [child EXCEPT !.state = "closed", !.code = SpawnFailureCode,
                            !.promise = SettlePromise(@, CloseOutcome(SpawnFailureCode)),
                            !.settleCalls = @ + 1]
  /\ UNCHANGED <<variant, env, req, idlDoc, fs, runs, pc, programId, extracted,
                 ops, inv, entryPoints, result, calls, hist>>

(***************************************************************************)
(* Enumerate, transpile, clean up, return.                                 *)
(***************************************************************************)
\* globby(["**/*.ts"], {cwd: tsOutDir, absolute: true})
Glob(f, dir) == {p \in FilesUnder(f, dir) : p[Len(p)].ext = "ts"}

Enumerate ==
  /\ pc = "enumerate"
  /\ entryPoints' = Glob(fs, req.tsOutDir)
  /\ pc' = "transpile"
  /\ UNCHANGED <<variant, env, req, idlDoc, fs, runs, programId, extracted, ops,
                 inv, child, result, calls, hist>>

EnumerateFails ==
  /\ pc = "enumerate"
  /\ pc' = "done"
  /\ result' = Rejected("EnumerationFailed", Null, "")
  /\ UNCHANGED <<variant, env, req, idlDoc, fs, runs, programId, extracted, ops,
                 inv, child, entryPoints, calls, hist>>

\* esbuild's build({entryPoints, outdir, bundle: false}): every entry point
\* compiles to one file under outdir, at its path relative to the lowest
\* common ancestor directory of the entry points, with the extension .js.
OutBase(entries) ==
  LET parents == {Parent(p) : p \in entries}
      common == {q \in UNION {Ancestors(p) \cup {<<>>} : p \in parents} :
                   \A p \in parents : IsPrefix(q, p)}
  IN  CHOOSE q \in common : \A c \in common : Len(c) <= Len(q)

OutFile(outdir, base, p) ==
  outdir \o SubSeq(p, Len(base) + 1, Len(p) - 1) \o <<F(p[Len(p)].stem, "js")>>

Outputs(entries, outdir) ==
  IF entries = {} THEN {}
  ELSE {OutFile(outdir, OutBase(entries), p) : p \in entries}

Build(f, entries, outdir) ==
  [dirs  |-> f.dirs \cup UNION {Ancestors(Parent(o)) : o \in Outputs(entries, outdir)},
   files |-> f.files \cup Outputs(entries, outdir)]

Transpile ==
  /\ pc = "transpile"
  /\ calls' = [calls EXCEPT !.compiler = @ + 1]
  /\ fs' = Build(fs, entryPoints, req.jsOutDir)
  /\ pc' = "cleanup"
  /\ UNCHANGED <<variant, env, req, idlDoc, runs, programId, extracted, ops,
                 inv, child, entryPoints, result, hist>>

TranspileFails ==
  /\ pc = "transpile"
  /\ calls' = [calls EXCEPT !.compiler = @ + 1]
  /\ pc' = "done"
  /\ result' = Rejected("TranspileFailed", Null, "")
  /\ UNCHANGED <<variant, env, req, idlDoc, fs, runs, programId, extracted, ops,
                 inv, child, entryPoints, hist>>

\* CleanupResult with the rejection of fs.rm let through to the caller.
CleanupRethrows(state, path) ==
  IF state = "failed" THEN Rejected("CleanupFailed", Null, "") ELSE Resolved(path)

\* How the run ends once the removal of the temporary directory has
\* settled in the given state: the rejection is caught, so it returns
\* jsOutDir either way.
CleanupResult(state, path) == Resolved(path)

\* await fs.rm(tsOutDir, ...), a rejection only warned about (try/catch in
\* src/src/generator.js, .catch(() => {}) in src/unnamed/part_001);
\* then return jsOutDir.
Cleanup ==
  /\ pc = "cleanup"
  /\ \E o \in RemovalOutcomes(fs, req.tsOutDir) :
       /\ fs' = o.fs
       /\ ops' = [ops EXCEPT !.cleanup = o.state]
       /\ result' = CleanupResult(o.state, req.jsOutDir)
  /\ pc' = "done"
  /\ UNCHANGED <<variant, env, req, idlDoc, runs, programId, extracted,
                 inv, child, entryPoints, calls, hist>>

(***************************************************************************)
(* Initial states.  The inputs fall into independent groups (the program   *)
(* identifier and the descriptor; the directories; the installation), and  *)
(* each initial state varies one group over all its values while the       *)
(* others take a usual value.                                              *)
(***************************************************************************)
Doc(metaAddress, address) ==
  [file |-> "json", root |-> "object", meta |-> "object",
   metaAddress |-> metaAddress, address |-> address]

UsualDoc == Doc(Str(<<" ", "a">>), Undefined)

DocSample ==
  {UsualDoc,
   Doc(Undefined, Str(<<"a", " ">>)),
   Doc(Str(<<" ">>), Str(<<"a">>)),
   Doc(Undefined, Undefined),
   Doc(Other, Str(<<"a">>)),
   [file |-> "badjson", root |-> "other", meta |-> "undefined",
    metaAddress |-> Undefined, address |-> Undefined]}

ProgramIdInputs == {Null, Str(<<>>), Str(<<"b">>)}

Request(id, verbose) ==
  [idlPath |-> IdlPath, programId |-> id, tsOutDir |-> TmpDir,
   jsOutDir |-> OutDir, verbose |-> verbose]

UsualEnv == [platform |-> "linux", cmdStub |-> FALSE, shStub |-> TRUE, pkg |-> "binMap"]

FsUnion(f, g) == [dirs |-> f.dirs \cup g.dirs, files |-> f.files \cup g.files]
WithIdl == [dirs |-> {}, files |-> {IdlPath}]
DirStates(dir, leftover) ==
  {EmptyFs, [dirs |-> {dir}, files |-> {}],
   [dirs |-> {dir}, files |-> {Append(dir, leftover)}]}
DirectoryStates ==
  {FsUnion(t, j) : t \in DirStates(TmpDir, F("old", "ts")),
                   j \in DirStates(OutDir, F("old", "js"))}
InitialFilesystems ==
  DirectoryStates \cup {FsUnion(WithIdl, d) : d \in DirectoryStates}

Idle ==
  /\ pc = "idle"
  /\ programId = Null
  /\ extracted = NoExtract
  /\ ops = NoOps
  /\ inv = NoInv
  /\ child = NoChild
  /\ entryPoints = {}
  /\ result = NoResult
  /\ calls = NoCalls
  /\ hist = [atCall |-> EmptyFs, prepDone |-> FALSE, afterPrep |-> EmptyFs,
             prevValid |-> FALSE, prevPrep |-> EmptyFs]

\* The identifier and the descriptor vary.
InitIdentifier ==
  /\ variant \in Variants
  /\ env = UsualEnv
  /\ req \in {Request(id, FALSE) : id \in ProgramIdInputs}
  /\ idlDoc \in DocSample
  /\ fs = WithIdl
  /\ runs = 1
  /\ Idle

\* The directories (and the generator's streams) vary.
InitDirectories ==
  /\ variant \in Variants
  /\ env = UsualEnv
  /\ req \in {Request(Str(<<"b">>), v) : v \in BOOLEAN}
  /\ idlDoc = UsualDoc
  /\ fs \in InitialFilesystems
  /\ runs = 1
  /\ Idle

\* The caller calls again and again on what the previous call left behind,
\* with no generator installed (the "spawn" variant then stops right after
\* the preparation phase).
NothingInstalled == [platform |-> "linux", cmdStub |-> FALSE, shStub |-> FALSE, pkg |-> "missing"]

InitRepeated ==
  /\ variant = "spawn"
  /\ env = NothingInstalled
  /\ req = Request(Str(<<"b">>), FALSE)
  /\ idlDoc = UsualDoc
  /\ fs \in {FsUnion(WithIdl, d) : d \in DirectoryStates}
  /\ runs \in 2..MaxRuns
  /\ Idle

\* The installation varies.
InitInstallation ==
  /\ variant \in Variants
  /\ env \in Envs
  /\ req \in {Request(Null, v) : v \in BOOLEAN}
  /\ idlDoc = UsualDoc
  /\ fs = WithIdl
  /\ runs = 1
  /\ Idle

Init == InitIdentifier \/ InitDirectories \/ InitInstallation \/ InitRepeated

Next ==
  \/ Call
  \/ Validate
  \/ ResolveId
  \/ PrepStart
  \/ \E d \in {"ts", "js"} : RmSettle(d)
  \/ \E d \in {"ts", "js"} : MkdirSettle(d)
  \/ Locate
  \/ \E n \in GeneratedNames : ChildWrite(n)
  \/ \E c \in ExitCodes, t \in Diagnostics : ChildClose(c, t)
  \/ ChildError
  \/ ChildCloseAfterError
  \/ Enumerate
  \/ EnumerateFails
  \/ Transpile
  \/ TranspileFails
  \/ Cleanup

Spec == Init /\ [][Next]_vars

(***************************************************************************)
(* The extractor on its own: extractProgramIdFromIdl is an export of both  *)
(* files, and any descriptor may be handed to it.                          *)
(***************************************************************************)
InitExtract ==
  /\ variant \in Variants
  /\ env = UsualEnv
  /\ req = Request(Null, FALSE)
  /\ idlDoc \in Descriptors
  /\ fs = WithIdl
  /\ runs = 0
  /\ Idle

ExtractCall ==
  /\ pc = "idle"
  /\ extracted.outcome = "notcalled"
  /\ extracted' = extractProgramIdFromIdl(variant, ReadDescriptor(fs, req.idlPath, idlDoc))
  /\ calls' = [calls EXCEPT !.extractor = @ + 1]
  /\ UNCHANGED <<variant, env, req, idlDoc, fs, runs, pc, programId, ops, inv,
                 child, entryPoints, result, hist>>

NextExtract == ExtractCall

SpecExtract == InitExtract /\ [][NextExtract]_vars

(***************************************************************************)
(* Properties of the extractor.                                            *)
(***************************************************************************)
\* t is x without its leading and trailing whitespace.
IsTrimOf(t, x) ==
  /\ t = <<>> \/ (t[1] # " " /\ t[Len(t)] # " ")
  /\ \E i \in 0..Len(x) :
       /\ i + Len(t) <= Len(x)
       /\ SubSeq(x, i + 1, i + Len(t)) = t
       /\ \A k \in (1..i) \cup ((i + Len(t) + 1)..Len(x)) : x[k] = " "

\* The field of the descriptor the claim speaks of: metadata.address when it
\* is a string, the top-level address when it is a string and there is no
\* metadata.address; "none" when neither field is present or the file does
\* not parse.  ("skip": a field holds something that is not a string, of
\* which the claim says nothing.)
HasMetadataAddress(doc) ==
  doc.file = "json" /\ doc.root = "object" /\ doc.meta = "object"
  /\ ~IsNullish(doc.metaAddress)
HasTopAddress(doc) ==
  doc.file = "json" /\ doc.root = "object" /\ ~IsNullish(doc.address)
ClaimedField(doc) ==
  IF HasMetadataAddress(doc)
  THEN (IF doc.metaAddress.t = "string" THEN doc.metaAddress ELSE [t |-> "skip", v |-> <<>>])
  ELSE IF HasTopAddress(doc)
  THEN (IF doc.address.t = "string" THEN doc.address ELSE [t |-> "skip", v |-> <<>>])
  ELSE [t |-> "none", v |-> <<>>]

\* C1 as stated: the extractor returns metadata.address trimmed when that is
\* a string, else the top-level address trimmed when that is a string, and
\* null when neither field is present or the file cannot be read or parsed;
\* it never throws.
ExtractReturnsTrimmedAddress ==
  extracted.outcome # "notcalled" =>
    /\ extracted.outcome = "returned"
    /\ LET x == ClaimedField(idlDoc)
       IN  /\ x.t = "string" =>
                extracted.value.t = "string" /\ IsTrimOf(extracted.value.v, x.v)
           /\ x.t = "none" => extracted.value = Null

\* C1 amended: as C1, except that when the address trims to the empty
\* string src/unnamed/part_001 returns null (src/src/generator.js returns
\* the empty string).
ExtractReturnsTrimmedAddressOrNull ==
  extracted.outcome # "notcalled" =>
    /\ extracted.outcome = "returned"
    /\ LET x == ClaimedField(idlDoc)
       IN  /\ x.t = "string" /\ ~IsTrimOf(<<>>, x.v) =>
                extracted.value.t = "string" /\ IsTrimOf(extracted.value.v, x.v)
           /\ x.t = "string" /\ IsTrimOf(<<>>, x.v) =>
                extracted.value = IF variant = "exec" THEN Null ELSE Str(<<>>)
           /\ x.t = "none" => extracted.value = Null

\* C1 witness: metadata.address " a" wins over a top-level address and is
\* returned trimmed.
ExtractTrimmedWitness ==
  /\ extracted.outcome = "returned"
  /\ idlDoc.file = "json" /\ idlDoc.meta = "object"
  /\ idlDoc.metaAddress = Str(<<" ", "a">>)
  /\ idlDoc.address = Str(<<"a", "a">>)
  /\ extracted.value = Str(<<"a">>)

\* C2: the extractor returns null or a non-empty string without leading or
\* trailing whitespace, never the empty string.
ExtractNeverEmpty ==
  extracted.outcome # "notcalled" =>
    /\ extracted.outcome = "returned"
    /\ \/ extracted.value = Null
       \/ /\ extracted.value.t = "string"
          /\ extracted.value.v # <<>>
          /\ IsTrimOf(extracted.value.v, extracted.value.v)

(***************************************************************************)
(* Properties of generateJsSdk.                                            *)
(***************************************************************************)
\* The argument after "--program-id" in the invocation.
ProgramIdArg(i) ==
  LET k == CHOOSE n \in 1..Len(i.args) : i.args[n] = FlagArg("--program-id")
  IN  i.args[k + 1].val

Invoked == inv # NoInv
PastValidate == pc \notin {"idle", "validate"}
PastLocate == hist.prepDone /\ pc # "locate"

\* C3: whenever the generator is invoked, the identifier after --program-id
\* is non-empty; it is the caller's when the caller gave one (the extractor
\* is then not called), else the one extracted from the descriptor, else
\* the default placeholder; and no run fails in resolving the identifier.
IdentifierResolved ==
  /\ Invoked =>
       LET id == ProgramIdArg(inv)
       IN  /\ id # <<>>
           /\ ~Falsy(req.programId) =>
                id = req.programId.v /\ extracted = NoExtract /\ calls.extractor = 0
           /\ Falsy(req.programId) =>
                /\ calls.extractor = 1
                /\ extracted.outcome = "returned"
                /\ id = IF extracted.value.t = "string" /\ extracted.value.v # <<>>
                        THEN extracted.value.v
                        ELSE DefaultProgramId
  /\ result.error.kind # "ExtractThrew"
  /\ (PastValidate /\ pc # "resolveId" /\ result.error.kind # "SourceNotFound") =>
       (programId.t = "string" /\ programId.v # <<>>)

\* C3 witness: nothing supplied, nothing in the descriptor, and the
\* generator is invoked with the default placeholder.
DefaultIdentifierWitness ==
  /\ Invoked
  /\ Falsy(req.programId)
  /\ extracted.value = Null
  /\ ProgramIdArg(inv) = DefaultProgramId

\* C4: when the descriptor does not exist, the run is rejected with the
\* source-not-found error at once: the filesystem is as it was at the call,
\* no removal or creation was issued, and the extractor, the generator and
\* the compiler were not called.
MissingSourceIsFatal ==
  (PastValidate /\ ~Access(hist.atCall, req.idlPath)) =>
    /\ pc = "done"
    /\ result.status = "rejected"
    /\ result.error.kind = "SourceNotFound"
    /\ fs = hist.atCall
    /\ ops = NoOps
    /\ calls = NoCalls
    /\ ~Invoked

\* C4 witness: a rejected run that found leftovers in both directories and
\* left them.
MissingSourceWitness ==
  /\ result.error.kind = "SourceNotFound"
  /\ Under(fs, req.tsOutDir) # {}
  /\ Under(fs, req.jsOutDir) # {}

\* C5: when the preparation phase completes without error, the temporary
\* and the output directory both exist and are empty.
PreparedDirectoriesAreEmpty ==
  (hist.prepDone /\ pc = "locate") =>
    IsEmptyDir(fs, req.tsOutDir) /\ IsEmptyDir(fs, req.jsOutDir)

\* C6: a preparation phase that runs right after another one (nothing
\* touched the filesystem in between) ends in the state the first one ended
\* in, both directories present and empty; and the removal of an absent
\* directory never fails.
PreparationIsIdempotent ==
  /\ (hist.prepDone /\ pc = "locate" /\ hist.prevValid) =>
       /\ fs = hist.prevPrep
       /\ IsEmptyDir(fs, req.tsOutDir) /\ IsEmptyDir(fs, req.jsOutDir)
  /\ \A d \in {"ts", "js"} :
       ops[RmOp(d)] = "failed" => Access(hist.atCall, DirOf(req, d))

GenerationFailed == result.error.kind = "GenerationFailed"

\* What C7 says besides the content of the error: the compiler was not
\* called, the output directory holds no more than preparation left in it,
\* and the temporary directory is still there with what it held after
\* preparation and what the generator wrote.
NothingCompiledNothingRemoved ==
  /\ calls.compiler = 0
  /\ Under(fs, req.jsOutDir) = Under(hist.afterPrep, req.jsOutDir)
  /\ ops.cleanup = "idle"
  /\ req.tsOutDir \in fs.dirs
  /\ Under(hist.afterPrep, req.tsOutDir) \subseteq Under(fs, req.tsOutDir)
  /\ child.wrote => Under(fs, req.tsOutDir) # Under(hist.afterPrep, req.tsOutDir)

NoLocalCandidate == ~env.cmdStub /\ ~env.shStub /\ env.pkg = "missing"

\* C8: when nothing is installed locally, locating the generator does not
\* throw and gives the fetch-and-run invocation, npx -y.
FallbackWhenNothingInstalled ==
  (PastLocate /\ NoLocalCandidate) =>
    /\ result.error.kind # "LocateFailed"
    /\ Invoked
    /\ inv.runner = Npx(env.platform)
    /\ inv.args[1] = FlagArg("-y")

\* The file the invocation runs: the runner, or the script handed to node.
Target(i) == IF i.runner = ExecPath THEN i.args[1].val ELSE i.runner

\* A stub of the generator that the platform can run exists under
\* node_modules/.bin.
LocalStubExists == env.shStub \/ (env.platform = "win32" /\ env.cmdStub)

\* C9: in src/src/generator.js, when a stub exists under node_modules/.bin,
\* that stub is what is invoked, whatever package.json says: the .cmd stub
\* on Windows when it exists, else the plain stub.
LocalStubIsInvoked ==
  (variant = "spawn" /\ PastLocate /\ LocalStubExists) =>
    /\ Invoked
    /\ Target(inv) = IF env.platform = "win32" /\ env.cmdStub THEN CmdStub ELSE ShStub
    /\ IsPrefix(BinDir, Target(inv))

\* C9 witness: the stub is invoked although the package is installed too.
LocalStubWitness ==
  /\ variant = "spawn"
  /\ Invoked
  /\ env.shStub /\ env.pkg = "binString"
  /\ Target(inv) = ShStub

\* C10: a run that returns, returns the output directory; the output
\* directory then holds exactly one .js file per .ts file found in the
\* temporary directory, and the temporary directory is gone.
SuccessfulRunOutput ==
  result.status = "returned" =>
    /\ result.value = req.jsOutDir
    /\ calls.compiler = 1
    /\ Cardinality(FilesUnder(fs, req.jsOutDir)) = Cardinality(entryPoints)
    /\ \A p \in entryPoints :
         \E o \in FilesUnder(fs, req.jsOutDir) :
           o[Len(o)] = F(p[Len(p)].stem, "js")
    /\ ~Access(fs, req.tsOutDir)

(***************************************************************************)
(* Cleanup, phase order, failures.                                         *)
(***************************************************************************)
\* C11: the cleanup step ends the run by returning the output directory
\* whether the removal of the temporary directory succeeds or fails, and it
\* leaves everything under the output directory as the compiler left it.
CleanupFailureIsNotFatal ==
  [][pc = "cleanup" =>
       /\ pc' = "done"
       /\ ops'.cleanup \in {"ok", "failed"}
       /\ result' = Resolved(req.jsOutDir)
       /\ Under(fs', req.jsOutDir) = Under(fs, req.jsOutDir)
       /\ req.jsOutDir \in fs'.dirs]_vars

\* C11 witness: the removal failed, a generated file is still in the
\* temporary directory, and the run returned the output directory with a
\* compiled file in it.
CleanupFailureWitness ==
  /\ ops.cleanup = "failed"
  /\ result = Resolved(req.jsOutDir)
  /\ FilesUnder(fs, req.tsOutDir) # {}
  /\ Outputs(entryPoints, req.jsOutDir) # {}
  /\ Outputs(entryPoints, req.jsOutDir) \subseteq fs.files

\* The phases of a run, in the order of the code: validate, resolve the
\* identifier, prepare the directories, invoke the generator, enumerate,
\* transpile, clean up, and the end of the run.
Phase(p) ==
  CASE p = "idle" -> 0
    [] p = "validate" -> 1
    [] p = "resolveId" -> 2
    [] p \in {"prepare", "removing", "creating"} -> 3
    [] p \in {"locate", "generating"} -> 4
    [] p = "enumerate" -> 5
    [] p = "transpile" -> 6
    [] p = "cleanup" -> 7
    [] p = "done" -> 8

\* A step of the run in progress (not the caller's next call).
RunStep == pc \notin {"idle", "done"}

\* While a phase after preparation is in progress, every operation of the
\* phases before it has settled and has run at most once.
EarlierPhasesSettled ==
  /\ Phase(pc) \in 4..7 =>
       /\ \A k \in {"rmTs", "rmJs"} : ops[k] \in {"ok", "failed"}
       /\ \A k \in {"mkTs", "mkJs"} : ops[k] = "ok"
  /\ Phase(pc) \in 1..3 => ~Invoked /\ child.state = "none"
  /\ Phase(pc) \in 1..5 => calls.compiler = 0
  /\ Phase(pc) \in 5..7 => child.state = "exited" /\ child.code = Num(0)
  /\ Phase(pc) \in 1..6 => ops.cleanup = "idle"
  /\ Phase(pc) \in 1..7 => result = Pending
  /\ calls.extractor <= 1 /\ calls.generator <= 1 /\ calls.compiler <= 1
  /\ result.status = "returned" =>
       /\ calls.generator = 1 /\ calls.compiler = 1
       /\ \A k \in DOMAIN ops : ops[k] \in {"ok", "failed"}

\* C12: in a run the phases come in the fixed order: a step stays in its
\* phase, enters the next one or ends the run; the next phase is entered
\* only when no operation of the run is pending and the child is not
\* running; and a run that has ended stays ended.
PhasesInOrder ==
  /\ []EarlierPhasesSettled
  /\ [][/\ RunStep =>
            /\ Phase(pc') \in {Phase(pc), Phase(pc) + 1, 8}
            /\ (Phase(pc') = Phase(pc) + 1 /\ pc' # "done") =>
                 /\ \A k \in DOMAIN ops : ops'[k] # "pending"
                 /\ child'.state # "running"
        /\ (pc = "done" /\ runs' = runs) => pc' = "done" /\ result' = result]_vars

\* C12 witness: a run that went through every phase and returned, with
\* all five filesystem operations settled and generated files compiled.
AllPhasesWitness ==
  /\ pc = "done"
  /\ result.status = "returned"
  /\ \A k \in DOMAIN ops : ops[k] = "ok"
  /\ calls = [extractor |-> 1, generator |-> 1, compiler |-> 1]
  /\ Cardinality(entryPoints) = 2

FatalKinds ==
  {"SourceNotFound", "DirectoryPrepFailed", "LocateFailed", "SpawnFailed",
   "GenerationFailed", "EnumerationFailed", "TranspileFailed"}

\* What a rejected run has not done, by the phase that failed.
NothingAfterFailure ==
  LET k == result.error.kind
  IN  /\ k \in FatalKinds
      /\ pc = "done"
      /\ ops.cleanup = "idle"
      /\ k = "SourceNotFound" => ops = NoOps /\ calls = NoCalls
      /\ k \in {"SourceNotFound", "DirectoryPrepFailed", "LocateFailed"} =>
           ~Invoked /\ child.state = "none" /\ calls.generator = 0
      /\ k \in {"SpawnFailed", "GenerationFailed", "EnumerationFailed",
                 "TranspileFailed"} => calls.generator = 1
      /\ k # "TranspileFailed" => calls.compiler = 0
      /\ k = "TranspileFailed" => calls.compiler = 1
      /\ k \notin {"EnumerationFailed", "TranspileFailed"} => entryPoints = {}

\* A failure of an operation has rejected the run.
FailureRejects ==
  /\ (ops.mkTs = "failed" \/ ops.mkJs = "failed") =>
       result.error.kind = "DirectoryPrepFailed"
  /\ (child.state = "exited" /\ child.code # Num(0)) =>
       result.error.kind = "GenerationFailed"
  /\ result.error.kind # "none" => result.status = "rejected"

\* C13: a failure of a phase ends the run with a rejection; nothing of a
\* later phase has been started (the temporary directory is not cleaned
\* up), and from then on the run starts nothing, retries nothing and keeps
\* its rejection.
FailureIsTerminal ==
  /\ [](FailureRejects /\ (result.status = "rejected" => NothingAfterFailure))
  /\ [][(result.status = "rejected" /\ runs' = runs) =>
          /\ result' = result /\ pc' = pc
          /\ calls' = calls /\ inv' = inv /\ entryPoints' = entryPoints
          /\ \A k \in DOMAIN ops : ops'[k] = "pending" => ops[k] = "pending"
          /\ child'.state = "running" => child.state = "running"]_vars

\* C13 witness: the compiler failed; the generated sources are still in the
\* temporary directory and no cleanup was issued.
TranspileFailureWitness ==
  /\ result.error.kind = "TranspileFailed"
  /\ entryPoints # {}
  /\ entryPoints \subseteq fs.files
  /\ ops.cleanup = "idle"

(***************************************************************************)
(* The directory-preparation phase.                                        *)
(***************************************************************************)
\* C14: the two removals are issued together; no creation is issued while
\* a removal is pending; and the generator is located and invoked only
\* when both removals have settled and both creations have resolved.
PreparationIsOrdered ==
  /\ (ops.rmTs = "idle") <=> (ops.rmJs = "idle")
  /\ (ops.mkTs = "idle") <=> (ops.mkJs = "idle")
  /\ (ops.mkTs # "idle" \/ ops.mkJs # "idle") =>
       ops.rmTs \in {"ok", "failed"} /\ ops.rmJs \in {"ok", "failed"}
  /\ (pc = "locate" \/ Invoked \/ calls.generator > 0 \/ child.state # "none") =>
       /\ ops.rmTs \in {"ok", "failed"} /\ ops.rmJs \in {"ok", "failed"}
       /\ ops.mkTs = "ok" /\ ops.mkJs = "ok"

\* C14 witness: the removal of the output directory has settled before the
\* removal of the temporary directory, which is pending with its leftover
\* file still there, and no creation has been issued.
RemovalsInterleaveWitness ==
  /\ ops.rmJs = "ok" /\ ops.rmTs = "pending"
  /\ ops.mkTs = "idle" /\ ops.mkJs = "idle"
  /\ FilesUnder(fs, req.tsOutDir) # {}
  /\ ~Access(fs, req.jsOutDir)

\* C15: when the promise of generateJsSdk has settled, none of the run's
\* filesystem operations is still pending (so the filesystem does not
\* change under the caller's feet afterwards).
SettledRunHasNothingInFlight ==
  result.status \in {"returned", "rejected"} =>
    \A k \in DOMAIN ops : ops[k] # "pending"

(***************************************************************************)
(* The three paths of a call are the caller's: after resolve() they may    *)
(* coincide or lie inside one another.                                     *)
(***************************************************************************)
\* <<tsOutDir, jsOutDir>>: apart, the same directory, the output directory
\* inside the temporary one, the temporary directory inside the output one.
DirLayouts ==
  {<<TmpDir, OutDir>>,
   <<OutDir, OutDir>>,
   <<TmpDir, TmpDir \o OutDir>>,
   <<OutDir \o TmpDir, OutDir>>}

\* The descriptor lies beside the directories or inside one of them.
PathLayouts ==
  UNION {{[idlPath |-> i, tsOutDir |-> l[1], jsOutDir |-> l[2]] :
            i \in {IdlPath, l[1] \o IdlPath, l[2] \o IdlPath}} : l \in DirLayouts}

InitPaths ==
  /\ variant \in Variants
  /\ env = UsualEnv
  /\ req \in {[idlPath |-> l.idlPath, programId |-> Str(<<"b">>),
                tsOutDir |-> l.tsOutDir, jsOutDir |-> l.jsOutDir,
                verbose |-> FALSE] : l \in PathLayouts}
  /\ idlDoc = UsualDoc
  /\ fs = WriteFile(EmptyFs, req.idlPath)
  /\ runs = 1
  /\ Idle

SpecPaths == InitPaths /\ [][Next]_vars

\* C16: while the generator runs on the descriptor, the descriptor that
\* passed validation is still there.
DescriptorSurvivesPreparation ==
  (Invoked /\ child.state = "running" /\ ~child.wrote) => Access(fs, req.idlPath)

\* C17: when the run returns a path, that path is a directory and holds
\* the compiled file of every entry point.
ReturnedDirectoryHoldsOutput ==
  result.status = "returned" =>
    /\ result.value \in fs.dirs
    /\ Outputs(entryPoints, req.jsOutDir) \subseteq FilesUnder(fs, result.value)

(***************************************************************************)
(* The subprocess helper run() of src/src/generator.js.                    *)
(***************************************************************************)
RunSettled == child.promise \in {"resolved", "rejected"}

RunPromiseFollowsChild ==
  variant = "spawn" =>
    /\ child.state = "none" => child.promise = "none"
    /\ child.state = "running" => child.promise = "pending" /\ child.settleCalls = 0
    /\ child.state \in {"exited", "failed", "closed"} => RunSettled
    /\ (child.promise = "resolved") <=> (child.state = "exited" /\ child.code = Num(0))
    /\ (child.state \in {"exited", "closed"} /\ child.code # Num(0)) =>
         child.promise = "rejected"
    /\ child.state = "failed" => child.promise = "rejected"
    /\ child.promise = "resolved" =>
         Phase(pc) >= 5 /\ result.error.kind \notin {"GenerationFailed", "SpawnFailed"}
    /\ child.promise = "rejected" =>
         result.status = "rejected"
         /\ result.error.kind \in {"GenerationFailed", "SpawnFailed"}

\* C18: the promise of run() is pending while the child runs and settled
\* once an event of the child has arrived; it is resolved exactly when the
\* child closed with code 0, and rejected after a spawn error, a code other
\* than 0 or a signal (code null); once settled it never changes, whatever
\* event comes later.
RunSettlesOnce ==
  /\ []RunPromiseFollowsChild
  /\ [][(RunSettled /\ runs' = runs) => child'.promise = child.promise]_vars

\* C18 witness: the spawn failed; 'error' rejected the promise, and the
\* 'close' that followed called rejectRun a second time to no effect.
ErrorThenCloseWitness ==
  /\ variant = "spawn"
  /\ child.state = "closed"
  /\ child.code = SpawnFailureCode
  /\ child.settleCalls = 2
  /\ child.promise = "rejected"
  /\ result.error.kind = "SpawnFailed"

(***************************************************************************)
(* The two variants on the same call: every descriptor, every identifier   *)
(* the caller may give.                                                    *)
(***************************************************************************)
\* What the caller may give as programId: nothing, the empty string, a
\* string of whitespace (which is truthy), an identifier.
CallerIdentifiers == ProgramIdInputs \cup {Str(<<" ">>)}

InitDescriptors ==
  /\ variant \in Variants
  /\ env = UsualEnv
  /\ req \in {Request(id, FALSE) : id \in CallerIdentifiers}
  /\ idlDoc \in Descriptors
  /\ fs = WithIdl
  /\ runs = 1
  /\ Idle

SpecDescriptors == InitDescriptors /\ [][Next]_vars

OtherVariant(v) == IF v = "spawn" THEN "exec" ELSE "spawn"

\* The identifier the other variant's code resolves on this run's call.
OtherIdentifier ==
  ResolveProgramId(OtherVariant(variant), req.programId,
                   ReadDescriptor(hist.atCall, req.idlPath, idlDoc))

\* C19: the identifier a run goes on with, and the one it hands to the
\* generator after --program-id, is the one the other variant resolves for
\* the same descriptor and the same caller-supplied programId; and both
\* variants call the extractor on the same calls.
VariantsResolveSameIdentifier ==
  /\ Phase(pc) >= 3 =>
       /\ programId = OtherIdentifier[2]
       /\ (extracted.outcome = "notcalled") <=> (OtherIdentifier[1].outcome = "notcalled")
  /\ Invoked => ProgramIdArg(inv) = OtherIdentifier[2].v

\* C19 witness: metadata.address is empty and the top-level address is
\* not; the extractor of src/src/generator.js returned the empty string
\* (that of src/unnamed/part_001 returns null), and the generator got the
\* default placeholder.
EmptyMetadataAddressWitness ==
  /\ variant = "spawn"
  /\ Invoked
  /\ HasMetadataAddress(idlDoc) /\ idlDoc.metaAddress = Str(<<>>)
  /\ idlDoc.address = Str(<<"a">>)
  /\ extracted.value = Str(<<>>)
  /\ extractProgramIdFromIdl("exec", idlDoc).value = Null
  /\ ProgramIdArg(inv) = DefaultProgramId

====
